---- MODULE Spec2Model ----
(***************************************************************************)
(* A model of app/plan_route.py: the journey planner find_routes and its   *)
(* helpers k_nearest_stop_coords, stop_id, journey_transits,               *)
(* lines_connecting_stops and parse_route.                                 *)
(*                                                                         *)
(* Geometry.  The indexed stops lie on one meridian; a coordinate is the   *)
(* pair <<lat, lng>> with lat counted in metres along that meridian and    *)
(* lng = 0, so the Euclidean order the k-d tree uses and the geodesic      *)
(* distance of the walking filter are both |lat1 - lat2|.                  *)
(*                                                                         *)
(* The index holds at least K stops, and every indexed stop is a node of   *)
(* the graph.                                                              *)
(*                                                                         *)
(* Exceptions.  A call either returns (exc = "none", ret = the value) or   *)
(* raises (exc = the exception's name, ret = <<>>).                        *)
(***************************************************************************)
EXTENDS Integers, Sequences, FiniteSets, TLC

VARIABLES GRAPH, ALL_STOPS_TREE, call, origin_stops, destination_stops,
          transit_options, ret, exc

vars == <<GRAPH, ALL_STOPS_TREE, call, origin_stops, destination_stops,
          transit_options, ret, exc>>

-----------------------------------------------------------------------------
(* Bounds of the model *)

\* number of stops in the spatial index (and nodes of the graph)
NumStops == 11
\* stops 1..CallStopsBound are passed to the helpers directly
CallStopsBound == 5
\* largest max_changes passed to journey_transits
MaxChangesBound == 2
\* largest of the short walking budgets passed to find_routes
ShortWalk == 2

\* the k of both k_nearest_stop_coords calls of find_routes
K == 10
\* metres between two neighbouring stops
Spacing == 2

Stops == 1..NumStops

Abs(x) == IF x < 0 THEN -x ELSE x
Min(S) == CHOOSE x \in S : \A y \in S : x <= y
Range(s) == {s[i] : i \in 1..Len(s)}

-----------------------------------------------------------------------------
(* data_loader: the lookups and the index *)

\* STOP_COORDS: stop id -> (lat, lng)
STOP_COORDS == [s \in Stops |-> <<Spacing * s, 0>>]

\* COORD_STOPS: (lat, lng) -> stop id, the inverse lookup
COORD_STOPS == [c \in {STOP_COORDS[s] : s \in Stops} |->
                   CHOOSE s \in Stops : STOP_COORDS[s] = c]

\* stop_id(coords, lookup_dict=COORD_STOPS)
stop_id(coords) == COORD_STOPS[coords]

\* geopy distance(a, b).meters
distance(a, b) == Abs(a[1] - b[1]) + Abs(a[2] - b[2])

\* tree.data is stored in one of these orders
TreeOrders == { [i \in 1..NumStops |-> STOP_COORDS[i]],
                [i \in 1..NumStops |-> STOP_COORDS[NumStops + 1 - i]] }

\* the pairs of stops that may be joined
EdgeSlots == { <<1, 2>>, <<1, 3>>, <<2, 3>>, <<2, 4>>, <<3, 4>> }

\* the lines of the parallel edges joining two stops, in edge-key order; a
\* multigraph keeps one edge (a, b, line) per line serving the hop: one line
\* serves neighbouring stops, two lines serve the longer hops
SlotLines(a, b) == IF b - a = 1 THEN <<"L1">> ELSE <<"L2", "L1">>

\* the graphs: undirected, every stop a node
Graphs == { [a \in Stops |-> [b \in Stops |->
               IF <<a, b>> \in E THEN SlotLines(a, b)
               ELSE IF <<b, a>> \in E THEN SlotLines(b, a)
               ELSE <<>>]] : E \in SUBSET EdgeSlots }

\* graph[a]: the neighbours of a
Adj(graph, a) == {b \in Stops : graph[a][b] # <<>>}

-----------------------------------------------------------------------------
(* k_nearest_stop_coords *)

\* entry i of the tree comes before entry j in the answer of a query: it is
\* nearer to the point, or as near and stored earlier in tree.data
Nearer(tree, point, i, j) ==
    \/ distance(point, tree[i]) < distance(point, tree[j])
    \/ /\ distance(point, tree[i]) = distance(point, tree[j])
       /\ i < j

\* the first n indexes of the tree, nearest first
RECURSIVE ByDistance(_, _, _)
ByDistance(tree, point, n) ==
    IF n = 0 THEN <<>>
    ELSE LET sorted == ByDistance(tree, point, n - 1)
             p == Cardinality({m \in 1..Len(sorted) :
                                 Nearer(tree, point, sorted[m], n)})
         IN  SubSeq(sorted, 1, p) \o <<n>> \o SubSeq(sorted, p + 1, Len(sorted))

\* tree.query((lat, lon), k) for k <= len(tree.data): the indexes of the k
\* nearest entries
query(tree, point, k) == SubSeq(ByDistance(tree, point, Len(tree)), 1, k)

\* the list of coordinates; with fewer than k entries in the tree the query
\* pads its answer with the index len(tree.data) and tree.data[idx] raises
k_nearest_stop_coords(lat, lon, k, tree) ==
    IF k > Len(tree)
    THEN [ret |-> <<>>, exc |-> "IndexError"]
    ELSE LET indexes == query(tree, <<lat, lon>>, k)
         IN  [ret |-> [n \in 1..Len(indexes) |-> tree[indexes[n]]],
              exc |-> "none"]

-----------------------------------------------------------------------------
(* journey_transits *)

\* breadth-first levels from a frontier: the stops at 0, 1, 2, ... hops
RECURSIVE BFSLevels(_, _, _)
BFSLevels(graph, frontier, seen) ==
    IF frontier = {} THEN <<>>
    ELSE LET next == (UNION {Adj(graph, v) : v \in frontier}) \ seen
         IN  <<frontier>> \o BFSLevels(graph, next, seen \cup next)

\* the paths a predecessor map of the search can spell out for stop v of
\* level i: any neighbour in the level before may be v's predecessor
RECURSIVE PathsTo(_, _, _, _)
PathsTo(graph, levels, v, i) ==
    IF i = 1 THEN {<<v>>}
    ELSE UNION { {Append(p, v) : p \in PathsTo(graph, levels, u, i - 1)} :
                   u \in levels[i - 1] \cap Adj(graph, v) }

\* the simple paths from v to target that avoid the stops of seen
RECURSIVE SimplePaths(_, _, _, _)
SimplePaths(graph, v, target, seen) ==
    IF v = target THEN {<<v>>}
    ELSE UNION { {<<v>> \o p : p \in SimplePaths(graph, u, target, seen \cup {u})} :
                   u \in Adj(graph, v) \ seen }

\* a depth-first search: it returns the first path it finds, shortest or not
shortest_path_dfs(graph, source, target) ==
    SimplePaths(graph, source, target, {source})

\* nx.shortest_path(graph, source, target): the lists it can return; which
\* of several shortest paths it returns depends on the adjacency order.
\* The empty set stands for NetworkXNoPath.
shortest_path(graph, source, target) ==
    LET levels == BFSLevels(graph, {source}, {source})
        hits   == {i \in 1..Len(levels) : target \in levels[i]}
    IN  IF hits = {} THEN {}
        ELSE PathsTo(graph, levels, target, CHOOSE i \in hits : TRUE)

\* an Optional[int] is {} for None and {n} for the integer n
None == {}
Some(n) == {n}

\* Python's truth value of an Optional[int]: None and 0 are false
Truthy(opt) == opt # {} /\ opt # {0}

\* journey_transits(origin_stop_id, destination_stop_id, max_changes, graph):
\* the outcomes of the call
journey_transits(origin_stop_id, destination_stop_id, max_changes, graph) ==
    LET paths == shortest_path(graph, origin_stop_id, destination_stop_id)
    IN  IF paths = {}
        THEN {[ret |-> <<>>, exc |-> "NetworkXNoPath"]}
        ELSE {[ret |-> IF /\ Truthy(max_changes)
                          /\ \E m \in max_changes : Len(changes) - 2 > m
                       THEN <<>> ELSE changes,
               exc |-> "none"] : changes \in paths}

-----------------------------------------------------------------------------
(* lines_connecting_stops and parse_route *)

\* graph[a][b] raises KeyError when a and b are not adjacent
lines_connecting_stops(origin_stop_id, destination_stop_id, graph) ==
    LET edges == graph[origin_stop_id][destination_stop_id]
    IN  IF edges = <<>>
        THEN [ret |-> <<>>, exc |-> "KeyError"]
        ELSE [ret |-> [e \in 1..Len(edges) |-> edges[e]], exc |-> "none"]

\* a segment that reads the line of one edge only, the first
Segment_first_edge(prev_stop, next_stop, graph) ==
    LET edges == graph[prev_stop][next_stop]
    IN  [busses  |-> <<edges[1]>>,
         board   |-> [id  |-> prev_stop,
                      lat |-> STOP_COORDS[prev_stop][1],
                      lng |-> STOP_COORDS[prev_stop][2]],
         deboard |-> [id  |-> next_stop,
                      lat |-> STOP_COORDS[next_stop][1],
                      lng |-> STOP_COORDS[next_stop][2]]]

\* a segment with board and deboard exchanged
Segment_swapped(prev_stop, next_stop, graph) ==
    LET edges == graph[prev_stop][next_stop]
    IN  [busses  |-> [e \in 1..Len(edges) |-> edges[e]],
         board   |-> [id  |-> next_stop,
                      lat |-> STOP_COORDS[next_stop][1],
                      lng |-> STOP_COORDS[next_stop][2]],
         deboard |-> [id  |-> prev_stop,
                      lat |-> STOP_COORDS[prev_stop][1],
                      lng |-> STOP_COORDS[prev_stop][2]]]

\* the dict parse_route yields for the hop prev_stop -> next_stop
Segment(prev_stop, next_stop, graph) ==
    LET edges == graph[prev_stop][next_stop]
    IN  [busses  |-> [e \in 1..Len(edges) |-> edges[e]],
         board   |-> [id  |-> prev_stop,
                      lat |-> STOP_COORDS[prev_stop][1],
                      lng |-> STOP_COORDS[prev_stop][2]],
         deboard |-> [id  |-> next_stop,
                      lat |-> STOP_COORDS[next_stop][1],
                      lng |-> STOP_COORDS[next_stop][2]]]

\* the loop without its last statement, prev_stop = next_stop
RECURSIVE ParseLoop_no_advance(_, _, _)
ParseLoop_no_advance(prev_stop, rest, graph) ==
    IF rest = <<>> THEN [ret |-> <<>>, exc |-> "none"]
    ELSE LET next_stop == Head(rest)
         IN  IF graph[prev_stop][next_stop] = <<>>
             THEN [ret |-> <<>>, exc |-> "KeyError"]
             ELSE LET tail == ParseLoop_no_advance(prev_stop, Tail(rest), graph)
                  IN  IF tail.exc # "none" THEN tail
                      ELSE [ret |-> <<Segment(prev_stop, next_stop, graph)>>
                                       \o tail.ret,
                            exc |-> "none"]

\* the for loop of parse_route from prev_stop over the remaining stops
RECURSIVE ParseLoop(_, _, _)
ParseLoop(prev_stop, rest, graph) ==
    IF rest = <<>> THEN [ret |-> <<>>, exc |-> "none"]
    ELSE LET next_stop == Head(rest)
         IN  IF graph[prev_stop][next_stop] = <<>>
             THEN [ret |-> <<>>, exc |-> "KeyError"]
             ELSE LET tail == ParseLoop(next_stop, Tail(rest), graph)
                  IN  IF tail.exc # "none" THEN tail
                      ELSE [ret |-> <<Segment(prev_stop, next_stop, graph)>>
                                       \o tail.ret,
                            exc |-> "none"]

\* list(parse_route(changes)): next() on an empty list raises StopIteration
\* inside the generator, which surfaces as RuntimeError
parse_route(changes, graph) ==
    IF changes = <<>> THEN [ret |-> <<>>, exc |-> "RuntimeError"]
    ELSE ParseLoop(Head(changes), Tail(changes), graph)

-----------------------------------------------------------------------------
(* find_routes *)

\* the (origin, dest) pairs in the order of the nested comprehension
Pairs(os, ds) ==
    [n \in 1..(Len(os) * Len(ds)) |->
        <<os[((n - 1) \div Len(ds)) + 1], ds[((n - 1) % Len(ds)) + 1]>>]

\* the comprehension over journey_transits: the lists it can build, or the
\* exception of the first call that raises
RECURSIVE TransitOptions(_, _)
TransitOptions(pairs, graph) ==
    IF pairs = <<>> THEN {[ret |-> <<>>, exc |-> "none"]}
    ELSE UNION {
           IF h.exc # "none" THEN {[ret |-> <<>>, exc |-> h.exc]}
           ELSE { IF t.exc # "none" THEN t
                  ELSE [ret |-> <<h.ret>> \o t.ret, exc |-> "none"] :
                    t \in TransitOptions(Tail(pairs), graph) } :
           h \in journey_transits(stop_id(Head(pairs)[1]),
                                  stop_id(Head(pairs)[2]), None, graph) }

\* [list(parse_route(t)) for t in transit_options]
RECURSIVE ParseAll(_, _)
ParseAll(options, graph) ==
    IF options = <<>> THEN [ret |-> <<>>, exc |-> "none"]
    ELSE LET h == parse_route(Head(options), graph)
         IN  IF h.exc # "none" THEN [ret |-> <<>>, exc |-> h.exc]
             ELSE LET t == ParseAll(Tail(options), graph)
                  IN  IF t.exc # "none" THEN t
                      ELSE [ret |-> <<h.ret>> \o t.ret, exc |-> "none"]

\* [s for s in stops if distance(point, s).meters <= max_walk]
walkable_lt(point, stops, max_walk) ==
    LET Walk(c) == distance(point, c) < max_walk
    IN  SelectSeq(stops, Walk)

walkable(point, stops, max_walk) ==
    LET Walk(c) == distance(point, c) <= max_walk
    IN  SelectSeq(stops, Walk)

\* what a call that raises leaves behind
Raised(os, ds, e) ==
    [origin_stops |-> os, destination_stops |-> ds, transit_options |-> <<>>,
     ret |-> <<>>, exc |-> e]

\* find_routes(origin, destination, max_walk): the outcomes of the call
find_routes(origin, destination, max_walk, tree, graph) ==
    LET near_o == k_nearest_stop_coords(origin[1], origin[2], K, tree)
        near_d == k_nearest_stop_coords(destination[1], destination[2], K, tree)
        os == walkable(origin, near_o.ret, max_walk)
        ds == walkable(destination, near_d.ret, max_walk)
    IN  IF near_o.exc # "none" THEN {Raised(<<>>, <<>>, near_o.exc)}
        ELSE IF near_d.exc # "none" THEN {Raised(<<>>, <<>>, near_d.exc)}
        ELSE UNION {
          IF all.exc # "none" THEN {Raised(os, ds, all.exc)}
          ELSE IF all.ret = <<>> THEN {Raised(os, ds, "ValueError")}
          ELSE LET fewest_changes == Min({Len(all.ret[i]) : i \in DOMAIN all.ret})
                   Fewest(t) == Len(t) = fewest_changes
                   kept   == SelectSeq(all.ret, Fewest)
                   parsed == ParseAll(kept, graph)
               IN  {[origin_stops |-> os, destination_stops |-> ds,
                     transit_options |-> kept,
                     ret |-> parsed.ret, exc |-> parsed.exc]} :
          all \in TransitOptions(Pairs(os, ds), graph) }

-----------------------------------------------------------------------------
(* The calls *)

\* the query points: around the served stops, and the middle of the index
FarLat == Spacing * ((NumStops + 1) \div 2)
Points == {<<lat, 0>> : lat \in (2..8) \cup {FarLat}}

\* the walking budgets: short ones, and one that covers the whole index
MaxWalks == (0..ShortWalk) \cup {Spacing * NumStops}

\* the stops passed to the helpers directly
CallStops == 1..CallStopsBound

\* the lists passed to parse_route: what the path search returns, and
\* two-stop lists of any stops
RouteInputs(graph) ==
    (UNION {shortest_path(graph, a, b) : a \in CallStops, b \in CallStops})
      \cup {<<a, b>> : a \in CallStops, b \in CallStops}

Init ==
    /\ GRAPH \in Graphs
    /\ ALL_STOPS_TREE \in TreeOrders
    /\ call = [fn |-> "none"]
    /\ origin_stops = <<>>
    /\ destination_stops = <<>>
    /\ transit_options = <<>>
    /\ ret = <<>>
    /\ exc = "none"

FindRoutes ==
    /\ call.fn = "none"
    /\ \E origin \in Points, destination \in Points, max_walk \in MaxWalks :
         \E out \in find_routes(origin, destination, max_walk,
                                ALL_STOPS_TREE, GRAPH) :
           /\ call' = [fn |-> "find_routes", origin |-> origin,
                       destination |-> destination, max_walk |-> max_walk]
           /\ origin_stops' = out.origin_stops
           /\ destination_stops' = out.destination_stops
           /\ transit_options' = out.transit_options
           /\ ret' = out.ret
           /\ exc' = out.exc
    /\ UNCHANGED <<GRAPH, ALL_STOPS_TREE>>

JourneyTransits ==
    /\ call.fn = "none"
    /\ \E o \in CallStops, d \in CallStops,
          mc \in {None} \cup {Some(n) : n \in 0..MaxChangesBound} :
         \E out \in journey_transits(o, d, mc, GRAPH) :
           /\ call' = [fn |-> "journey_transits", origin_stop_id |-> o,
                       destination_stop_id |-> d, max_changes |-> mc]
           /\ ret' = out.ret
           /\ exc' = out.exc
    /\ UNCHANGED <<GRAPH, ALL_STOPS_TREE, origin_stops, destination_stops,
                   transit_options>>

LinesConnectingStops ==
    /\ call.fn = "none"
    /\ \E o \in CallStops, d \in CallStops :
         LET out == lines_connecting_stops(o, d, GRAPH)
         IN  /\ call' = [fn |-> "lines_connecting_stops",
                         origin_stop_id |-> o, destination_stop_id |-> d]
             /\ ret' = out.ret
             /\ exc' = out.exc
    /\ UNCHANGED <<GRAPH, ALL_STOPS_TREE, origin_stops, destination_stops,
                   transit_options>>

ParseRoute ==
    /\ call.fn = "none"
    /\ \E changes \in RouteInputs(GRAPH) :
         LET out == parse_route(changes, GRAPH)
         IN  /\ call' = [fn |-> "parse_route", changes |-> changes]
             /\ ret' = out.ret
             /\ exc' = out.exc
    /\ UNCHANGED <<GRAPH, ALL_STOPS_TREE, origin_stops, destination_stops,
                   transit_options>>

Next == FindRoutes \/ JourneyTransits \/ LinesConnectingStops \/ ParseRoute

Spec == Init /\ [][Next]_vars

-----------------------------------------------------------------------------
(* Reference definitions for the properties *)

\* the stops reached from the stops of S by a walk of exactly n hops
RECURSIVE WalkReach(_, _, _)
WalkReach(graph, S, n) ==
    IF n = 0 THEN S
    ELSE WalkReach(graph, UNION {Adj(graph, v) : v \in S}, n - 1)

\* the lengths of the walks from a to b
WalkLengths(graph, a, b) ==
    {n \in 0..(NumStops - 1) : b \in WalkReach(graph, {a}, n)}

Connected(graph, a, b) == WalkLengths(graph, a, b) # {}

\* the breadth-first distance of two connected stops
BFSDistance(graph, a, b) == Min(WalkLengths(graph, a, b))

\* a list of stops whose consecutive stops are adjacent
IsTransitPath(graph, p) ==
    /\ Len(p) >= 1
    /\ \A i \in 1..(Len(p) - 1) : graph[p[i]][p[i + 1]] # <<>>

\* the indexed coordinates within the walking budget of a point
WithinWalk(point, max_walk) ==
    {STOP_COORDS[s] : s \in {x \in Stops :
        distance(point, STOP_COORDS[x]) <= max_walk}}

NoDuplicates(s) == \A i, j \in 1..Len(s) : s[i] = s[j] => i = j

\* stops is, in some order, the part within max_walk of some choice of the
\* k indexed stops nearest to point
CandidatesOf(stops, point, max_walk, k) ==
    LET missing == WithinWalk(point, max_walk) \ Range(stops)
    IN  /\ NoDuplicates(stops)
        /\ Range(stops) \subseteq WithinWalk(point, max_walk)
        /\ \/ missing = {}
           \/ /\ Len(stops) = k
              /\ \A c \in Range(stops), m \in missing :
                    distance(point, c) <= distance(point, m)

-----------------------------------------------------------------------------
(* journey_transits *)

\* C4: without max_changes and for two stops of one connected component,
\* journey_transits returns a list that starts at the origin stop, ends at
\* the destination stop, joins consecutive stops by an edge, and has as many
\* hops as the breadth-first distance of the two stops.
C4_ShortestPath ==
    ( /\ call.fn = "journey_transits"
      /\ call.max_changes = None
      /\ Connected(GRAPH, call.origin_stop_id, call.destination_stop_id) )
    => /\ exc = "none"
       /\ Len(ret) >= 1
       /\ ret[1] = call.origin_stop_id
       /\ ret[Len(ret)] = call.destination_stop_id
       /\ IsTransitPath(GRAPH, ret)
       /\ Len(ret) - 1 = BFSDistance(GRAPH, call.origin_stop_id,
                                      call.destination_stop_id)

\* a path of three hops was returned for two stops that a longer walk
\* through parallel edges also joins
C4_Witness ==
    /\ call.fn = "journey_transits"
    /\ call.max_changes = None
    /\ exc = "none"
    /\ Len(ret) = 4
    /\ \E i \in 1..3 : Len(GRAPH[ret[i]][ret[i + 1]]) = 2

\* C5: for every supplied max_changes >= 0, 0 included, and two connected
\* stops, journey_transits returns the empty list when the shortest path
\* has len(path) - 2 > max_changes, and the shortest path otherwise.
C5_MaxChanges ==
    ( /\ call.fn = "journey_transits"
      /\ call.max_changes # None
      /\ Connected(GRAPH, call.origin_stop_id, call.destination_stop_id) )
    => LET n == BFSDistance(GRAPH, call.origin_stop_id,
                            call.destination_stop_id) + 1
       IN  /\ exc = "none"
           /\ \A m \in call.max_changes :
                 IF n - 2 > m THEN ret = <<>>
                 ELSE /\ Len(ret) = n
                      /\ ret[1] = call.origin_stop_id
                      /\ ret[n] = call.destination_stop_id
                      /\ IsTransitPath(GRAPH, ret)

-----------------------------------------------------------------------------
(* parse_route *)

\* the line identifiers on the parallel edges between a and b
EdgeLines(graph, a, b) ==
    {graph[a][b][e] : e \in DOMAIN graph[a][b]}
      \cup {graph[b][a][e] : e \in DOMAIN graph[b][a]}

\* C6: parse_route applied to a path of n >= 1 stops whose consecutive stops
\* are adjacent ends after n - 1 segments, each with a non-empty list of
\* lines; a single-stop path gives no segment.
C6_SegmentCount ==
    ( /\ call.fn = "parse_route"
      /\ IsTransitPath(GRAPH, call.changes) )
    => /\ exc = "none"
       /\ Len(ret) = Len(call.changes) - 1
       /\ \A i \in 1..Len(ret) : ret[i].busses # <<>>

\* a path of four stops was decomposed into three segments
C6_Witness ==
    /\ call.fn = "parse_route"
    /\ IsTransitPath(GRAPH, call.changes)
    /\ Len(call.changes) = 4
    /\ Len(ret) = 3

C10_SegmentOrder ==
    ( /\ call.fn = "parse_route"
      /\ exc = "none"
      /\ Len(call.changes) >= 2 )
    => /\ Len(ret) = Len(call.changes) - 1
       /\ \A i \in 1..Len(ret) :
            /\ ret[i].board.id = call.changes[i]
            /\ ret[i].deboard.id = call.changes[i + 1]
       /\ ret[1].board.id = call.changes[1]
       /\ ret[Len(ret)].deboard.id = call.changes[Len(call.changes)]
       /\ \A i \in 1..(Len(ret) - 1) : ret[i].deboard.id = ret[i + 1].board.id

\* a path of at least three distinct stops was decomposed
C10_Witness ==
    /\ call.fn = "parse_route"
    /\ exc = "none"
    /\ Len(call.changes) >= 3
    /\ Len(ret) = Len(call.changes) - 1
    /\ call.changes[1] # call.changes[Len(call.changes)]

-----------------------------------------------------------------------------
(* find_routes: the candidate stops *)

\* C8: the stops find_routes searches from, and those it searches to, are
\* those of the K nearest indexed stops whose distance to the query point
\* is <= max_walk, for origin and destination independently.
C8_WalkFilter ==
    ( call.fn = "find_routes" /\ exc # "IndexError" )
    => /\ CandidatesOf(origin_stops, call.origin, call.max_walk, K)
       /\ CandidatesOf(destination_stops, call.destination, call.max_walk, K)

\* a stop at exactly max_walk from the origin was kept, and a stop at
\* max_walk + 1 from the destination was dropped while others were kept
C8_Witness ==
    /\ call.fn = "find_routes"
    /\ call.max_walk > 0
    /\ \E c \in Range(origin_stops) :
          distance(call.origin, c) = call.max_walk
    /\ \E s \in Stops :
          /\ distance(call.destination, STOP_COORDS[s]) = call.max_walk + 1
          /\ STOP_COORDS[s] \notin Range(destination_stops)
    /\ destination_stops # <<>>
    /\ Range(destination_stops) # Range(origin_stops)

-----------------------------------------------------------------------------
(* find_routes: the journeys *)

\* the candidate (origin stop, destination stop) pairs of a finished call,
\* as indexes into origin_stops and destination_stops
CandidatePairs == (1..Len(origin_stops)) \X (1..Len(destination_stops))

PairOrigin(pr) == stop_id(origin_stops[pr[1]])
PairDestination(pr) == stop_id(destination_stops[pr[2]])

\* the candidate pairs the graph joins by a path
JoinedPairs ==
    {pr \in CandidatePairs :
        Connected(GRAPH, PairOrigin(pr), PairDestination(pr))}

PairDistance(pr) == BFSDistance(GRAPH, PairOrigin(pr), PairDestination(pr))

\* the joined pairs whose shortest path is shortest over all joined pairs
FewestPairs ==
    {pr \in JoinedPairs : \A other \in JoinedPairs :
        PairDistance(pr) <= PairDistance(other)}

\* journey is a journey of the pair: as many segments as the pair's
\* distance, from the pair's origin stop to its destination stop
JourneyOf(journey, pr) ==
    /\ Len(journey) = PairDistance(pr)
    /\ Len(journey) > 0 =>
         /\ journey[1].board.id = PairOrigin(pr)
         /\ journey[Len(journey)].deboard.id = PairDestination(pr)

\* the returned list holds one journey for each pair of FewestPairs and
\* nothing else
OneJourneyPerFewestPair ==
    \E f \in [1..Len(ret) -> FewestPairs] :
        /\ \A pr \in FewestPairs : \E i \in 1..Len(ret) : f[i] = pr
        /\ \A i, j \in 1..Len(ret) : f[i] = f[j] => i = j
        /\ \A i \in 1..Len(ret) : JourneyOf(ret[i], f[i])

\* C1: find_routes returns one journey for each candidate pair whose
\* shortest path has the minimum length over all pairs, ties kept and not
\* deduplicated, and no journey for a pair whose path is longer.
C1_TieFilter ==
    ( call.fn = "find_routes" /\ JoinedPairs # {} )
    => /\ exc = "none"
       /\ Len(ret) = Cardinality(FewestPairs)
       /\ OneJourneyPerFewestPair

\* C2: when some candidate pair has no path, find_routes does not fail: it
\* leaves the pair out and computes the result from the remaining pairs,
\* the empty list when no pair has a path.
C2_NoPathSwallowed ==
    ( call.fn = "find_routes" /\ CandidatePairs \ JoinedPairs # {} )
    => /\ exc = "none"
       /\ JoinedPairs = {} => ret = <<>>
       /\ JoinedPairs # {} =>
            /\ Len(ret) = Cardinality(FewestPairs)
            /\ OneJourneyPerFewestPair

\* C3: when no indexed stop lies within max_walk of the origin, or none
\* within max_walk of the destination, find_routes returns an empty journey
\* list and does not raise.
C3_NoReachableStop ==
    ( /\ call.fn = "find_routes"
      /\ \/ WithinWalk(call.origin, call.max_walk) = {}
         \/ WithinWalk(call.destination, call.max_walk) = {} )
    => /\ exc = "none"
       /\ ret = <<>>

\* the stop nearer to the point than every other indexed stop, if any
NearestStops(point) ==
    {s \in Stops : \A o \in Stops \ {s} :
        distance(point, STOP_COORDS[s]) < distance(point, STOP_COORDS[o])}

\* C7: when origin and destination map to the same nearest stop, a walkable
\* candidate of both, find_routes returns a single journey, and that
\* journey has zero segments.
C7_SameNearestStop ==
    ( /\ call.fn = "find_routes"
      /\ \E s \in NearestStops(call.origin) \cap NearestStops(call.destination) :
            /\ distance(call.origin, STOP_COORDS[s]) <= call.max_walk
            /\ distance(call.destination, STOP_COORDS[s]) <= call.max_walk )
    => /\ exc = "none"
       /\ Len(ret) = 1
       /\ ret[1] = <<>>

====
